---- MODULE Spec2Model ----
(***************************************************************************)
(* Command executor (core/executor.ts: execute, executeStream) and batch   *)
(* scheduler (commands/batch.ts: processFile, processBatch) of the         *)
(* ImageMagick Node.js wrapper, with the argument sanitizer                *)
(* (utils/validation.ts) they call.                                        *)
(*                                                                         *)
(* One JavaScript event-loop turn is one action.  The external process,    *)
(* the binary locator's file system and the command builder are the        *)
(* environment: their outcomes are chosen nondeterministically.            *)
(***************************************************************************)
EXTENDS Integers, Sequences, FiniteSets, TLC

\* ------------------------------------------------------------------ bounds
MaxFiles == 3
MaxParallel == 2

\* --------------------------------------------------------------- constants
DEFAULT_TIMEOUT == 60000
NullCode == -1
SpawnErrno == -2

VARIABLES
    caller,          \* which exported function the client called
    options,         \* BatchOptions (with its execOptions) of the call
    cachedBinaryPath,\* core/binary.ts: the module-level cache of findBinary
    files,           \* processBatch: the input list
    calls,           \* one execute()/executeStream() invocation per slot
    pcB,             \* position of the caller's async function
    i,               \* processBatch: loop index (1-based), first item of the chunk in chunked mode
    processedCount,  \* processBatch: chunked mode counter
    success,         \* processBatch: positions of the files pushed to success
    failed,          \* processBatch: <<position, error>> pushed to failed
    progress,        \* BatchProgress values handed to options.onProgress
    validation,      \* utils/validation.ts: the call of one of its functions, and its outcome
    customBinaryPath,      \* core/binary.ts: the path set by setBinaryPath ("": null)
    additionalSearchPaths, \* core/binary.ts: the paths added by addBinarySearchPath
    existing,              \* the files that exist and can be executed
    found,                 \* what the last call of findBinary returned or threw
    bufferPromise          \* ImageMagick.toBuffer: the promise it returns, and its stdout listener

binaryVars == <<customBinaryPath, additionalSearchPaths, existing, found>>

vars == <<bufferPromise, binaryVars, validation, caller, options, cachedBinaryPath, files, calls, pcB, i, processedCount, success, failed, progress>>

\* no function of utils/validation.ts is being called
NoValidation == [fn |-> "none", called |-> FALSE]

\* findBinary has not been called
NotCalled == [called |-> FALSE, ok |-> FALSE, path |-> "", dropped |-> ""]

\* toBuffer has not been called
NoBuffer == [kind |-> "none", data |-> "", ended |-> FALSE, caught |-> FALSE]

\* core/binary.ts as it is loaded: nothing set, nothing added
InitBinaryVars ==
    /\ bufferPromise = NoBuffer
    /\ customBinaryPath = ""
    /\ additionalSearchPaths = <<>>
    /\ existing = {}
    /\ found = NotCalled

\* ------------------------------------------------------------ sanitizer
\* A token is a sequence of characters; a value that is not a string is the
\* one-element sequence NotAString.
NotAString == <<"<number>">>

IsWord(ch) == ch \in {"a", "r", "x", "1", "_"}
IsSpace(ch) == ch \in {" ", "\t"}

\* as MatchSepWord, without the optional whitespace
MatchSepWordAdjacent(arg, sep) ==
    \E p \in 1..Len(arg) :
        /\ arg[p] = sep
        /\ p + 1 <= Len(arg)
        /\ IsWord(arg[p + 1])

\* /sep\s*\w+/
MatchSepWord(arg, sep) ==
    \E p \in 1..Len(arg) :
        /\ arg[p] = sep
        /\ \E q \in (p + 1)..Len(arg) :
              /\ IsWord(arg[q])
              /\ \A k \in (p + 1)..(q - 1) : IsSpace(arg[k])

\* /\$\([^)]+\)/
MatchCommandSubst(arg) ==
    \E p \in 1..Len(arg) :
        /\ arg[p] = "$"
        /\ p + 1 <= Len(arg)
        /\ arg[p + 1] = "("
        /\ \E q \in (p + 3)..Len(arg) :
              /\ arg[q] = ")"
              /\ \A k \in (p + 2)..(q - 1) : arg[k] # ")"

\* backtick, one or more non-backticks, backtick
MatchBacktick(arg) ==
    \E p \in 1..Len(arg) :
        /\ arg[p] = "BACKTICK"
        /\ \E q \in (p + 2)..Len(arg) :
              /\ arg[q] = "BACKTICK"
              /\ \A k \in (p + 1)..(q - 1) : arg[k] # "BACKTICK"

injectionPatterns(arg) ==
    \/ MatchSepWord(arg, "|")
    \/ MatchSepWord(arg, ";")
    \/ MatchSepWord(arg, "&")
    \/ MatchCommandSubst(arg)
    \/ MatchBacktick(arg)

\* sanitizeArgument: [ok |-> TRUE, value |-> arg] or [ok |-> FALSE, ...]
sanitizeArgument(arg) ==
    IF arg = NotAString
    THEN [ok |-> FALSE, value |-> arg, error |-> "not a string"]
    ELSE IF \E p \in 1..Len(arg) : arg[p] = "NUL"
    THEN [ok |-> FALSE, value |-> arg, error |-> "null byte"]
    ELSE IF injectionPatterns(arg)
    THEN [ok |-> FALSE, value |-> arg, error |-> "dangerous pattern"]
    ELSE [ok |-> TRUE, value |-> arg, error |-> ""]

\* as sanitizeArguments, but only the first token is looked at
sanitizeArgumentsFirstOnly(args) ==
    IF args = <<>> \/ sanitizeArgument(args[1]).ok
    THEN [ok |-> TRUE, value |-> args, index |-> -1]
    ELSE [ok |-> FALSE, value |-> <<>>, index |-> 0]

\* a value that is not an array
NotAnArray == <<<<"<object>">>>>

\* as sanitizeArguments, but the error names the last rejected token
sanitizeArgumentsLastIndex(args) ==
    LET bad == {p \in 1..Len(args) : ~sanitizeArgument(args[p]).ok}
    IN IF bad = {}
       THEN [ok |-> TRUE,
             value |-> [p \in 1..Len(args) |-> sanitizeArgument(args[p]).value],
             index |-> -1]
       ELSE [ok |-> FALSE, value |-> <<>>,
             index |-> (CHOOSE p \in bad : \A q \in bad : p >= q) - 1]

\* sanitizeArguments: args.map(...) throws at the first rejected token
sanitizeArguments(args) ==
    LET bad == {p \in 1..Len(args) : ~sanitizeArgument(args[p]).ok}
    IN IF args = NotAnArray
       THEN [ok |-> FALSE, value |-> <<>>, index |-> -1]
       ELSE IF bad = {}
       THEN [ok |-> TRUE,
             value |-> [p \in 1..Len(args) |-> sanitizeArgument(args[p]).value],
             index |-> -1]
       ELSE [ok |-> FALSE, value |-> <<>>,
             index |-> (CHOOSE p \in bad : \A q \in bad : p <= q) - 1]

\* argument vectors the command builder / the client may pass
TokWord == <<"a">>
TokGeometry == <<"1", "x", "1", "+", "1">>
TokDollar == <<"$", "a">>
TokInject == <<"1", ";", " ", "r">>
TokNul == <<"a", "NUL">>

ArgChoices ==
    { <<TokWord, TokGeometry>>,
      <<TokWord, TokDollar>>,
      <<TokWord, TokInject, TokWord>>,
      <<TokNul>>,
      <<TokWord, NotAString>> }

\* the command builders of a batch produce one safe and one unsafe vector
BatchArgChoices == { <<TokWord, TokGeometry>>, <<TokWord, TokInject, TokWord>> }

\* ------------------------------------------------------------- results
Pending == [kind |-> "pending", exitCode |-> NullCode, stdout |-> "", stderr |-> "",
            timeoutMs |-> 0, index |-> -1, args |-> <<>>]

Resolved(out, err, code) ==
    [Pending EXCEPT !.kind = "resolved", !.exitCode = code, !.stdout = out, !.stderr = err]

\* new ExecutionError(message, command, args, exitCode, stderr, stdout)
ExecutionError(cmdArgs, code, err, out) ==
    [Pending EXCEPT !.kind = "ExecutionError", !.exitCode = code, !.stdout = out,
                    !.stderr = err, !.args = cmdArgs]

\* new TimeoutError(command, timeoutMs)
TimeoutError(ms) == [Pending EXCEPT !.kind = "TimeoutError", !.timeoutMs = ms]

BinaryNotFoundError == [Pending EXCEPT !.kind = "BinaryNotFoundError"]

\* Error("Invalid argument at index " + index + ...)
SanitizeError(idx) == [Pending EXCEPT !.kind = "SanitizeError", !.index = idx]

\* whatever the command builder throws
BuildError == [Pending EXCEPT !.kind = "BuildError"]


\* ------------------------------------------------------------- executor
\* opts = { ...DEFAULT_OPTIONS, ...options }
OptsTimeout ==
    IF options.execOptions.hasTimeout THEN options.execOptions.timeout ELSE DEFAULT_TIMEOUT

ExitCodes == {0, 1}

\* what the process wrote to stdout / stderr by the time it ends; a batch
\* never reads the output of its processes, which write nothing there
Outputs == IF caller = "processBatch" THEN {""} ELSE {"", "o"}
ErrOutputs == IF caller = "processBatch" THEN {""} ELSE {"", "e"}

\* the state of one invocation before it is made
NoCall ==
    [variant |-> "execute",
     stage |-> "idle",       \* idle, findBinary (awaiting it), spawned, done (ended without a spawn)
     args |-> <<>>,          \* the args parameter
     argv |-> <<>>,          \* sanitizedArgs, the vector handed to spawn
     proc |-> "none",        \* none, spawnfail, errored, running, exited, closed
     code |-> NullCode,      \* exit code the 'close' event carries (NullCode: null)
     signal |-> "",          \* signal that ended the process, if any
     killed |-> FALSE,
     timer |-> "none",       \* timeoutId: none (null), armed, fired, cleared
     stdout |-> "",
     stderr |-> "",
     result |-> Pending]

\* as Settled, but a call counts as settled once its process runs
SettledOrRunning(call) == call.result.kind # "pending" \/ call.proc = "running"

Settled(call) == call.result.kind # "pending"

\* resolve/reject of a promise that is already settled does nothing
Settle(call, outcome) == IF Settled(call) THEN call.result ELSE outcome

\* clearTimeout(timeoutId) under "timeoutId !== null"
ClearTimeout(call) == IF call.timer = "armed" THEN "cleared" ELSE call.timer

\* proc.on('error', ...).  The 'close' event that follows the 'error' of a
\* failed spawn finds the timer cleared and the promise settled and changes
\* nothing: "errored" is the last state of such a call.
OnError(call) ==
    [call EXCEPT !.timer = ClearTimeout(call),
                 !.result = Settle(call, BinaryNotFoundError),
                 !.proc = "errored",
                 !.code = SpawnErrno]

\* findBinary(): the cached path, else a path found on the file system
\* (exists: the environment has one), else it throws BinaryNotFoundError
findBinary(cached, exists) ==
    IF cached # ""
    THEN [ok |-> TRUE, path |-> cached]
    ELSE IF exists
    THEN [ok |-> TRUE, path |-> "magick"]
    ELSE [ok |-> FALSE, path |-> ""]

\* spawn(binaryPath, sanitizedArgs, ...) and the arming of the timeout.  A
\* spawn that fails emits 'error' from process.nextTick, that is in the
\* same turn, before any timer or I/O callback.
Spawn(call, started) ==
    LET spawned == [call EXCEPT !.stage = "spawned",
                                !.proc = IF started THEN "running" ELSE "spawnfail",
                                !.timer = IF OptsTimeout > 0 THEN "armed" ELSE "none"]
    IN IF started THEN spawned ELSE OnError(spawned)

\* as Invoke, but a failure of findBinary does not stop the call
InvokeSpawnAnyway(variant, args, cached, env) ==
    LET s == sanitizeArguments(args)
        call == [NoCall EXCEPT !.variant = variant, !.args = args]
    IN IF ~s.ok
       THEN [call EXCEPT !.stage = "done", !.result = SanitizeError(s.index)]
       ELSE Spawn([call EXCEPT !.argv = s.value], env.started)

\* The first turn of execute / executeStream: options merge,
\* sanitizeArguments, findBinary (an async function without an await of its
\* own, so that the await of it continues in the same turn) and spawn.
\* env.exists and env.started are the environment's part.
Invoke(variant, args, cached, env) ==
    LET s == sanitizeArguments(args)
        call == [NoCall EXCEPT !.variant = variant, !.args = args]
    IN IF ~s.ok
       THEN [call EXCEPT !.stage = "done", !.result = SanitizeError(s.index)]
       ELSE IF ~findBinary(cached, env.exists).ok
       THEN [call EXCEPT !.stage = "done", !.argv = s.value,
                         !.result = BinaryNotFoundError]
       ELSE Spawn([call EXCEPT !.argv = s.value], env.started)

\* cachedBinaryPath after that turn
CacheAfter(args, cached, env) ==
    IF sanitizeArguments(args).ok THEN findBinary(cached, env.exists).path ELSE cached

\* a binary that is not there cannot be started
EnvChoices == {e \in [exists : BOOLEAN, started : BOOLEAN] : e.started => e.exists}
NoEnv == [exists |-> FALSE, started |-> FALSE]

\* as OnTimeout, but the call is rejected by the timer, the process left
\* as it is
OnTimeoutRejects(call) ==
    [call EXCEPT !.killed = TRUE, !.timer = "fired",
                 !.result = Settle(call, TimeoutError(OptsTimeout))]

\* as OnTimeout, but no signal is sent to the process
OnTimeoutNoKill(call) == [call EXCEPT !.killed = TRUE, !.timer = "fired"]

\* The timeout callback: killed = true; proc.kill('SIGKILL').  A process
\* that is still running dies of the signal; one that has exited is left
\* as it is.  (execute also passes timeout to spawn, whose own timer of the
\* same delay, created in the same turn, runs right before this one and
\* sends SIGTERM: the process is dead after this turn either way.)
OnTimeout(call) ==
    IF call.proc = "running"
    THEN [call EXCEPT !.killed = TRUE, !.timer = "fired", !.proc = "exited",
                      !.code = NullCode, !.signal = "SIGKILL"]
    ELSE [call EXCEPT !.killed = TRUE, !.timer = "fired"]

\* as CloseOutcome, without the test of the killed flag
CloseOutcomeIgnoringKilled(call) ==
    LET exitCode == IF call.code = NullCode THEN 0 ELSE call.code
    IN IF exitCode # 0
       THEN ExecutionError(call.argv, exitCode, call.stderr, call.stdout)
       ELSE Resolved(call.stdout, call.stderr, exitCode)

\* as CloseOutcome, but executeStream does not look at the killed flag
CloseOutcomeStreamNotKilled(call) ==
    IF call.killed /\ call.variant = "execute"
    THEN TimeoutError(OptsTimeout)
    ELSE LET exitCode == IF call.code = NullCode THEN 0 ELSE call.code
         IN IF exitCode # 0
            THEN ExecutionError(IF call.variant = "execute" THEN call.argv ELSE call.args,
                                exitCode, call.stderr, call.stdout)
            ELSE Resolved(call.stdout, call.stderr, exitCode)

\* the outcome the 'close' handler computes from the code it is given
CloseOutcome(call) ==
    IF call.killed
    THEN TimeoutError(OptsTimeout)
    ELSE LET exitCode == IF call.code = NullCode THEN 0 ELSE call.code
         IN IF exitCode # 0
            THEN ExecutionError(IF call.variant = "execute" THEN call.argv ELSE call.args,
                                exitCode, call.stderr, call.stdout)
            ELSE Resolved(call.stdout, call.stderr, exitCode)

\* proc.on('close', (code) => ...)
OnClose(call) ==
    [call EXCEPT !.timer = ClearTimeout(call),
                 !.result = Settle(call, CloseOutcome(call)),
                 !.proc = "closed"]

Slots == 1..MaxFiles

batchVars == <<files, i, processedCount, success, failed, progress>>

\* the process ends by itself with an exit code, its output read by then
ProcExit(c) ==
    /\ calls[c].proc = "running"
    /\ \E code \in ExitCodes, out \in Outputs, err \in ErrOutputs :
          calls' = [calls EXCEPT ![c].proc = "exited", ![c].code = code,
                                 ![c].stdout = out, ![c].stderr = err]
    /\ UNCHANGED <<bufferPromise, binaryVars, validation, caller, options, cachedBinaryPath, pcB, batchVars>>

\* the process is ended by a signal nobody here sent
ProcSignalled(c) ==
    /\ calls[c].proc = "running"
    /\ calls' = [calls EXCEPT ![c].proc = "exited", ![c].code = NullCode,
                              ![c].signal = "SIGTERM"]
    /\ UNCHANGED <<bufferPromise, binaryVars, validation, caller, options, cachedBinaryPath, pcB, batchVars>>

\* the timer expires
TimerFire(c) ==
    /\ calls[c].timer = "armed"
    /\ calls[c].proc \in {"running", "exited"}
    /\ calls' = [calls EXCEPT ![c] = OnTimeout(calls[c])]
    /\ UNCHANGED <<bufferPromise, binaryVars, validation, caller, options, cachedBinaryPath, pcB, batchVars>>

\* 'close' is emitted once the process has ended and its pipes are closed
CloseEvent(c) ==
    /\ calls[c].proc = "exited"
    /\ calls' = [calls EXCEPT ![c] = OnClose(calls[c])]
    /\ UNCHANGED <<bufferPromise, binaryVars, validation, caller, options, cachedBinaryPath, pcB, batchVars>>

\* ------------------------------------------------- a client of the executor
ExecOptionChoices ==
    { [hasTimeout |-> FALSE, timeout |-> 0],
      [hasTimeout |-> TRUE, timeout |-> 0],
      [hasTimeout |-> TRUE, timeout |-> 100] }

NoBatchOptions(eo) ==
    [onProgress |-> FALSE, continueOnError |-> "true", parallel |-> 1, execOptions |-> eo]

InitExec ==
    /\ validation = NoValidation
    /\ InitBinaryVars
    /\ caller \in {"execute", "executeStream"}
    /\ \E eo \in ExecOptionChoices : options = NoBatchOptions(eo)
    /\ cachedBinaryPath = ""
    /\ files = <<>>
    /\ calls = [c \in Slots |-> NoCall]
    /\ pcB = "entry"
    /\ i = 1
    /\ processedCount = 0
    /\ success = <<>>
    /\ failed = <<>>
    /\ progress = <<>>

\* the client calls execute(args, options) or executeStream(args, options)
CallExecute ==
    /\ pcB = "entry"
    /\ caller \in {"execute", "executeStream"}
    /\ \E args \in ArgChoices, env \in EnvChoices :
          /\ calls' = [calls EXCEPT ![1] = Invoke(caller, args, cachedBinaryPath, env)]
          /\ cachedBinaryPath' = CacheAfter(args, cachedBinaryPath, env)
    /\ pcB' = "await"
    /\ UNCHANGED <<bufferPromise, binaryVars, validation, caller, options, batchVars>>

\* the client's await of the promise (of done, for executeStream) continues
ExecuteSettled ==
    /\ pcB = "await"
    /\ caller \in {"execute", "executeStream"}
    /\ Settled(calls[1])
    /\ pcB' = "returned"
    /\ UNCHANGED <<bufferPromise, binaryVars, validation, caller, options, cachedBinaryPath, calls, batchVars>>

CallStep ==
    \E c \in Slots :
        \/ ProcExit(c)
        \/ ProcSignalled(c)
        \/ TimerFire(c)
        \/ CloseEvent(c)

NextExec == CallExecute \/ ExecuteSettled \/ CallStep

SpecExec == InitExec /\ [][NextExec]_vars

\* ------------------- execute and executeStream side by side: the client
\* makes the same call of both, slot 1 holding execute and slot 2
\* executeStream, and their two processes behave alike
InitPair ==
    /\ validation = NoValidation
    /\ InitBinaryVars
    /\ caller = "pair"
    /\ \E eo \in ExecOptionChoices : options = NoBatchOptions(eo)
    /\ cachedBinaryPath = ""
    /\ files = <<>>
    /\ calls = [c \in Slots |-> NoCall]
    /\ pcB = "entry"
    /\ i = 1
    /\ processedCount = 0
    /\ success = <<>>
    /\ failed = <<>>
    /\ progress = <<>>

\* execute(args, options), then executeStream(args, options)
PairCall ==
    /\ caller = "pair" /\ pcB = "entry"
    /\ \E args \in ArgChoices, env \in EnvChoices :
          LET cached == CacheAfter(args, cachedBinaryPath, env)
          IN /\ calls' = [calls EXCEPT
                            ![1] = Invoke("execute", args, cachedBinaryPath, env),
                            ![2] = Invoke("executeStream", args, cached, env)]
             /\ cachedBinaryPath' = CacheAfter(args, cached, env)
    /\ pcB' = "await"
    /\ UNCHANGED <<bufferPromise, binaryVars, validation, caller, options, batchVars>>

\* both processes end with the same exit code and output
PairExit ==
    /\ caller = "pair"
    /\ calls[1].proc = "running" /\ calls[2].proc = "running"
    /\ \E code \in ExitCodes, out \in Outputs, err \in ErrOutputs :
          calls' = [c \in Slots |->
                      IF c \in {1, 2}
                      THEN [calls[c] EXCEPT !.proc = "exited", !.code = code,
                                            !.stdout = out, !.stderr = err]
                      ELSE calls[c]]
    /\ UNCHANGED <<bufferPromise, binaryVars, validation, caller, options, cachedBinaryPath, pcB, batchVars>>

\* both processes are ended by a signal from outside
PairSignalled ==
    /\ caller = "pair"
    /\ calls[1].proc = "running" /\ calls[2].proc = "running"
    /\ calls' = [c \in Slots |->
                   IF c \in {1, 2}
                   THEN [calls[c] EXCEPT !.proc = "exited", !.code = NullCode,
                                         !.signal = "SIGTERM"]
                   ELSE calls[c]]
    /\ UNCHANGED <<bufferPromise, binaryVars, validation, caller, options, cachedBinaryPath, pcB, batchVars>>

\* the timers of both calls expire
PairTimerFire ==
    /\ caller = "pair"
    /\ \A c \in {1, 2} : calls[c].timer = "armed" /\ calls[c].proc \in {"running", "exited"}
    /\ calls' = [c \in Slots |-> IF c \in {1, 2} THEN OnTimeout(calls[c]) ELSE calls[c]]
    /\ UNCHANGED <<bufferPromise, binaryVars, validation, caller, options, cachedBinaryPath, pcB, batchVars>>

\* 'close' is emitted for both processes
PairClose ==
    /\ caller = "pair"
    /\ calls[1].proc = "exited" /\ calls[2].proc = "exited"
    /\ calls' = [c \in Slots |-> IF c \in {1, 2} THEN OnClose(calls[c]) ELSE calls[c]]
    /\ UNCHANGED <<bufferPromise, binaryVars, validation, caller, options, cachedBinaryPath, pcB, batchVars>>

\* the client's awaits of the promise of execute and of done continue
PairSettled ==
    /\ caller = "pair" /\ pcB = "await"
    /\ Settled(calls[1]) /\ Settled(calls[2])
    /\ pcB' = "returned"
    /\ UNCHANGED <<bufferPromise, binaryVars, validation, caller, options, cachedBinaryPath, calls, batchVars>>

NextPair ==
    \/ PairCall
    \/ PairExit
    \/ PairSignalled
    \/ PairTimerFire
    \/ PairClose
    \/ PairSettled

SpecPair == InitPair /\ [][NextPair]_vars

\* ---------------------------------------------------------- processBatch
FileNames == {"", "a.jpg"}

RECURSIVE SeqsUpTo(_, _)
SeqsUpTo(S, n) ==
    IF n = 0 THEN {<<>>}
    ELSE SeqsUpTo(S, n - 1) \cup {Append(q, x) : q \in SeqsUpTo(S, n - 1), x \in S}

Max(a, b) == IF a >= b THEN a ELSE b
Min(a, b) == IF a <= b THEN a ELSE b

\* Math.round(a / b) for a >= 0, b > 0
Round(a, b) == (2 * a + b) \div (2 * b)

continueOnError == options.continueOnError # "false"
parallel == Max(1, options.parallel)

NoError == [Pending EXCEPT !.kind = "undefined"]

\* as reportProgress, but the error is not passed on
reportProgressNoError(events, current, index, error) ==
    IF options.onProgress
    THEN Append(events,
                [current |-> current,
                 index |-> index + 1,
                 total |-> Len(files),
                 percentage |-> Round((index + 1) * 100, Len(files)),
                 complete |-> (index = Len(files) - 1),
                 error |-> NoError])
    ELSE events

\* reportProgress(current, index, error); current is held as the position of
\* the file in files, index is 0-based as in the source
reportProgress(events, current, index, error) ==
    IF options.onProgress
    THEN Append(events,
                [current |-> current,
                 index |-> index + 1,
                 total |-> Len(files),
                 percentage |-> Round((index + 1) * 100, Len(files)),
                 complete |-> (index = Len(files) - 1),
                 error |-> error])
    ELSE events

\* what buildCommand(file) does: throw, or return an argument vector
BuildChoices ==
    {[throws |-> TRUE, args |-> <<>>]}
        \cup {[throws |-> FALSE, args |-> a] : a \in BatchArgChoices}

\* a build with the environment its call meets, which matters only to a
\* call that gets as far as findBinary
PlanChoices ==
    {pl \in [build : BuildChoices, env : EnvChoices] :
        (pl.build.throws \/ ~sanitizeArguments(pl.build.args).ok) => pl.env = NoEnv}

\* processFile(file, buildCommand, options): an async function, so a throw
\* of buildCommand rejects its promise
processFile(build, cached, env) ==
    IF build.throws
    THEN [NoCall EXCEPT !.stage = "done", !.result = BuildError]
    ELSE Invoke("execute", build.args, cached, env)

processFileCache(build, cached, env) ==
    IF build.throws THEN cached ELSE CacheAfter(build.args, cached, env)

\* continueOnError and execOptions.timeout left out behave as true and as
\* DEFAULT_TIMEOUT; a parallel below 1 is raised to 1
BatchOptionChoices ==
    [onProgress : BOOLEAN,
     continueOnError : {"true", "false"},
     parallel : 0..MaxParallel,
     execOptions : {eo \in ExecOptionChoices : eo.timeout = 0}]

InitBatch ==
    /\ validation = NoValidation
    /\ InitBinaryVars
    /\ caller = "processBatch"
    /\ options \in BatchOptionChoices
    /\ cachedBinaryPath = ""
    /\ files \in SeqsUpTo(FileNames, MaxFiles)
    /\ calls = [c \in Slots |-> NoCall]
    /\ pcB = "loop"
    /\ i = 1
    /\ processedCount = 0
    /\ success = <<>>
    /\ failed = <<>>
    /\ progress = <<>>

\* Once processBatch has taken the outcome of a call, the call's promise and
\* the locals of its closure are unreachable: what is kept of the call is
\* that it was made, with what arguments, and how it settled.
Forget(call) ==
    [call EXCEPT !.killed = FALSE, !.timer = "none", !.code = NullCode,
                 !.signal = "", !.stdout = "", !.stderr = ""]

\* sequential mode: "if (!file) continue"
SeqSkip ==
    /\ caller = "processBatch" /\ parallel = 1
    /\ pcB = "loop" /\ i <= Len(files)
    /\ files[i] = ""
    /\ i' = i + 1
    /\ UNCHANGED <<bufferPromise, binaryVars, validation, caller, options, cachedBinaryPath, files, calls, pcB,
                   processedCount, success, failed, progress>>

\* sequential mode: await processFile(file, buildCommand, execOptions)
SeqDispatch ==
    /\ caller = "processBatch" /\ parallel = 1
    /\ pcB = "loop" /\ i <= Len(files)
    /\ files[i] # ""
    /\ \E pl \in PlanChoices :
          /\ calls' = [calls EXCEPT ![i] = processFile(pl.build, cachedBinaryPath, pl.env)]
          /\ cachedBinaryPath' = processFileCache(pl.build, cachedBinaryPath, pl.env)
    /\ pcB' = "await"
    /\ UNCHANGED <<bufferPromise, binaryVars, validation, caller, options, batchVars>>

\* sequential mode: the await continues, in the try block or in the catch block
SeqSettled ==
    /\ caller = "processBatch" /\ parallel = 1
    /\ pcB = "await"
    /\ Settled(calls[i])
    /\ IF calls[i].result.kind = "resolved"
       THEN /\ success' = Append(success, i)
            /\ progress' = reportProgress(progress, i, i - 1, NoError)
            /\ failed' = failed
            /\ pcB' = "loop"
       ELSE /\ failed' = Append(failed, [file |-> i, error |-> calls[i].result])
            /\ progress' = reportProgress(progress, i, i - 1, calls[i].result)
            /\ success' = success
            /\ pcB' = IF continueOnError THEN "loop" ELSE "break"
    /\ i' = i + 1
    /\ calls' = [calls EXCEPT ![i] = Forget(calls[i])]
    /\ UNCHANGED <<bufferPromise, binaryVars, validation, caller, options, cachedBinaryPath, files, processedCount>>

\* as ChunkLast, with a slice that is one file too long
ChunkLastOneMore(first) == Min(first + parallel, Len(files))

\* chunked mode: files.slice(i, i + parallel), as the positions first..last
ChunkLast(first) == Min(first + parallel - 1, Len(files))
Chunk(first) == first..ChunkLast(first)

\* chunk.map((file) => processFile(...)): the files k..last of the chunk
\* are started one after the other, each seeing the cache the one before
\* it left; acc is [calls, cached]
RECURSIVE MapChunk(_, _, _, _)
MapChunk(k, last, plans, acc) ==
    IF k > last
    THEN acc
    ELSE MapChunk(k + 1, last, plans,
            [calls |-> [acc.calls EXCEPT
                           ![k] = processFile(plans[k].build, acc.cached, plans[k].env)],
             cached |-> processFileCache(plans[k].build, acc.cached, plans[k].env)])

\* chunked mode: Promise.allSettled(chunk.map(...)) starts every file of the chunk
ChunkDispatch ==
    /\ caller = "processBatch" /\ parallel # 1
    /\ pcB = "loop" /\ i <= Len(files)
    /\ \E plans \in [Chunk(i) -> PlanChoices] :
          LET acc == MapChunk(i, ChunkLast(i), plans,
                              [calls |-> calls, cached |-> cachedBinaryPath])
          IN /\ calls' = acc.calls
             /\ cachedBinaryPath' = acc.cached
    /\ pcB' = "await"
    /\ UNCHANGED <<bufferPromise, binaryVars, validation, caller, options, batchVars>>

\* chunked mode: the loop over the results of Promise.allSettled, from the
\* chunk's k-th file on; acc.returned is the return inside the loop
RECURSIVE CollectResults(_, _, _)
CollectResults(k, last, acc) ==
    IF k > last \/ acc.returned
    THEN acc
    ELSE IF files[k] = ""
    THEN CollectResults(k + 1, last, acc)
    ELSE IF calls[k].result.kind = "resolved"
    THEN CollectResults(k + 1, last,
            [acc EXCEPT !.success = Append(@, k),
                        !.progress = reportProgress(@, k, acc.processedCount, NoError),
                        !.processedCount = @ + 1])
    ELSE LET rec == [acc EXCEPT
                        !.failed = Append(@, [file |-> k, error |-> calls[k].result]),
                        !.progress = reportProgress(@, k, acc.processedCount,
                                                    calls[k].result)]
         IN IF continueOnError
            THEN CollectResults(k + 1, last, [rec EXCEPT !.processedCount = @ + 1])
            ELSE [rec EXCEPT !.returned = TRUE]

\* as allSettled, but one settled promise is enough
anySettled(first) == \E c \in Chunk(first) : Settled(calls[c])

\* the promise of Promise.allSettled settles once every promise of the
\* chunk has
allSettled(first) == \A c \in Chunk(first) : Settled(calls[c])

\* chunked mode: Promise.allSettled has settled
ChunkSettled ==
    /\ caller = "processBatch" /\ parallel # 1
    /\ pcB = "await"
    /\ allSettled(i)
    /\ LET acc == CollectResults(i, ChunkLast(i),
                                  [success |-> success, failed |-> failed,
                                   progress |-> progress,
                                   processedCount |-> processedCount,
                                   returned |-> FALSE])
       IN /\ success' = acc.success
          /\ failed' = acc.failed
          /\ progress' = acc.progress
          /\ processedCount' = acc.processedCount
          /\ pcB' = IF acc.returned THEN "returned" ELSE "loop"
    /\ i' = i + parallel
    /\ calls' = [c \in Slots |-> IF c \in Chunk(i) THEN Forget(calls[c]) ELSE calls[c]]
    /\ UNCHANGED <<bufferPromise, binaryVars, validation, caller, options, cachedBinaryPath, files>>

\* return { success, failed, duration } after the loop or the break
BatchReturn ==
    /\ caller = "processBatch"
    /\ IF pcB = "loop" THEN i > Len(files) ELSE pcB = "break"
    /\ pcB' = "returned"
    /\ UNCHANGED <<bufferPromise, binaryVars, validation, caller, options, cachedBinaryPath, files, calls, i,
                   processedCount, success, failed, progress>>

NextBatch ==
    \/ SeqSkip
    \/ SeqDispatch
    \/ SeqSettled
    \/ ChunkDispatch
    \/ ChunkSettled
    \/ BatchReturn
    \/ CallStep

SpecBatch == InitBatch /\ [][NextBatch]_vars

\* ------------------------------------------------- ImageMagick.toBuffer
InitToBuffer ==
    /\ validation = NoValidation
    /\ InitBinaryVars
    /\ caller = "toBuffer"
    /\ \E eo \in ExecOptionChoices : options = NoBatchOptions(eo)
    /\ cachedBinaryPath = ""
    /\ files = <<>>
    /\ calls = [c \in Slots |-> NoCall]
    /\ pcB = "entry"
    /\ i = 1
    /\ processedCount = 0
    /\ success = <<>>
    /\ failed = <<>>
    /\ progress = <<>>

\* toBuffer(format): await executeStream(args, this.execOptions, input),
\* whose throw rejects toBuffer; then the promise with its listeners on
\* streamResult.stdout and its catch of streamResult.done
ToBufferCall ==
    /\ caller = "toBuffer" /\ pcB = "entry"
    /\ \E args \in ArgChoices, env \in EnvChoices :
          LET call == Invoke("executeStream", args, cachedBinaryPath, env)
          IN /\ calls' = [calls EXCEPT ![1] = call]
             /\ cachedBinaryPath' = CacheAfter(args, cachedBinaryPath, env)
             /\ bufferPromise' =
                   [NoBuffer EXCEPT !.kind = IF call.stage = "done" THEN "rejected"
                                             ELSE "pending"]
    /\ pcB' = "await"
    /\ UNCHANGED <<binaryVars, validation, caller, options, batchVars>>

\* streamResult.stdout.on('end', ...): the process has ended and its output
\* is read to the end.  The catch of a done that has rejected runs in the
\* turn of the rejection, before any 'end'.
StdoutEnd ==
    /\ caller = "toBuffer"
    /\ calls[1].proc \in {"exited", "closed"}
    /\ ~bufferPromise.ended
    /\ calls[1].result.kind \in {"pending", "resolved"} \/ bufferPromise.caught
    /\ bufferPromise' =
          [bufferPromise EXCEPT
              !.ended = TRUE,
              !.kind = IF @ = "pending" THEN "resolved" ELSE @,
              !.data = IF bufferPromise.kind = "pending" THEN calls[1].stdout ELSE @]
    /\ UNCHANGED <<binaryVars, validation, caller, options, cachedBinaryPath, calls, pcB,
                   batchVars>>

\* streamResult.done.catch(reject)
DoneCatch ==
    /\ caller = "toBuffer"
    /\ calls[1].stage = "spawned"
    /\ calls[1].result.kind \notin {"pending", "resolved"}
    /\ ~bufferPromise.caught
    /\ bufferPromise' =
          [bufferPromise EXCEPT !.caught = TRUE,
                                !.kind = IF @ = "pending" THEN "rejected" ELSE @]
    /\ UNCHANGED <<binaryVars, validation, caller, options, cachedBinaryPath, calls, pcB,
                   batchVars>>

\* the client's await of toBuffer continues
ToBufferSettled ==
    /\ caller = "toBuffer" /\ pcB = "await"
    /\ bufferPromise.kind \in {"resolved", "rejected"}
    /\ pcB' = "returned"
    /\ UNCHANGED <<bufferPromise, binaryVars, validation, caller, options, cachedBinaryPath,
                   calls, batchVars>>

NextToBuffer ==
    \/ ToBufferCall
    \/ StdoutEnd
    \/ DoneCatch
    \/ ToBufferSettled
    \/ CallStep

SpecToBuffer == InitToBuffer /\ [][NextToBuffer]_vars

\* ---------------------------------------------------------- executeBatch
\* the commands of an executeBatch call, each with the environment it meets
CommandChoices == {pl \in PlanChoices : ~pl.build.throws}

\* the calls made in one turn find the same file system: those that get as
\* far as findBinary meet the same environment
SameTurn(planSets) ==
    {plans \in planSets :
        \A a \in DOMAIN plans, b \in DOMAIN plans :
            (sanitizeArguments(plans[a].build.args).ok
                /\ sanitizeArguments(plans[b].build.args).ok) =>
                plans[a].env = plans[b].env}

InitExecuteBatch ==
    /\ validation = NoValidation
    /\ InitBinaryVars
    /\ caller = "executeBatch"
    /\ \E eo \in ExecOptionChoices : options = NoBatchOptions(eo)
    /\ cachedBinaryPath = ""
    /\ files = <<>>
    /\ calls = [c \in Slots |-> NoCall]
    /\ pcB = "entry"
    /\ i = 1
    /\ processedCount = 0
    /\ success = <<>>
    /\ failed = <<>>
    /\ progress = <<>>

\* the calls that commands.map(...) has made
Commands == {c \in Slots : calls[c].stage # "idle"}

\* Promise.all(commands.map((args) => execute(args, options))): every
\* execute is called in the caller's turn and runs up to its spawn before
\* any event of a process is handled
ExecuteBatchCall ==
    /\ caller = "executeBatch" /\ pcB = "entry"
    /\ \E n \in 1..MaxParallel :
          \E plans \in SameTurn([1..n -> CommandChoices]) :
              LET acc == MapChunk(1, n, plans, [calls |-> calls, cached |-> cachedBinaryPath])
              IN /\ calls' = acc.calls
                 /\ cachedBinaryPath' = acc.cached
    /\ pcB' = "await"
    /\ UNCHANGED <<bufferPromise, binaryVars, validation, caller, options, batchVars>>

\* the promise of Promise.all rejects as soon as one of the promises has
\* rejected
ExecuteBatchRejected ==
    /\ caller = "executeBatch" /\ pcB = "await"
    /\ \E c \in Commands : calls[c].result.kind \notin {"pending", "resolved"}
    /\ pcB' = "rejected"
    /\ UNCHANGED <<bufferPromise, binaryVars, validation, caller, options, cachedBinaryPath, calls, batchVars>>

\* the promise of Promise.all resolves once every promise has resolved
ExecuteBatchResolved ==
    /\ caller = "executeBatch" /\ pcB = "await"
    /\ \A c \in Commands : calls[c].result.kind = "resolved"
    /\ pcB' = "returned"
    /\ UNCHANGED <<bufferPromise, binaryVars, validation, caller, options, cachedBinaryPath, calls, batchVars>>

NextExecuteBatch ==
    \/ ExecuteBatchCall
    \/ ExecuteBatchRejected
    \/ ExecuteBatchResolved
    \/ CallStep

SpecExecuteBatch == InitExecuteBatch /\ [][NextExecuteBatch]_vars

\* processBatch over files that all have a name: SeqSkip never applies
InitBatchNamed == InitBatch /\ \A k \in 1..Len(files) : files[k] # ""

NextBatchNamed ==
    \/ SeqDispatch
    \/ SeqSettled
    \/ ChunkDispatch
    \/ ChunkSettled
    \/ BatchReturn
    \/ CallStep

SpecBatchNamed == InitBatchNamed /\ [][NextBatchNamed]_vars

\* ------------------------------------ the sanitizer, called on its own
MaxTokenLen == 4
MaxArgs == 3

\* one character of each kind the sanitizer tells apart: a word character,
\* whitespace, the separators, the parts of the substitutions, NUL, and
\* "%" for the characters it has no rule for
TokenChars == {"a", " ", "|", ";", "&", "$", "(", ")", "BACKTICK", "NUL", "%"}

Tokens(len) == SeqsUpTo(TokenChars, len) \cup {NotAString}

\* argument lists: tokens that pass, with and without a warning, and tokens
\* that are rejected for each of the three reasons
ListTokens == {TokWord, TokDollar, TokInject, TokNul, NotAString}
TokenLists(len) == SeqsUpTo(ListTokens, len) \cup {NotAnArray}

NoOutput == [ok |-> FALSE, value |-> <<>>, error |-> "", index |-> -1]

InitSanitize ==
    /\ InitBinaryVars
    /\ validation \in
          {[fn |-> "sanitizeArgument", called |-> FALSE, input |-> t, output |-> NoOutput] :
              t \in Tokens(MaxTokenLen)}
          \cup
          {[fn |-> "sanitizeArguments", called |-> FALSE, input |-> ts, output |-> NoOutput] :
              ts \in TokenLists(MaxArgs)}
    /\ caller = "validation"
    /\ options = NoBatchOptions([hasTimeout |-> FALSE, timeout |-> 0])
    /\ cachedBinaryPath = ""
    /\ files = <<>>
    /\ calls = [c \in Slots |-> NoCall]
    /\ pcB = "entry"
    /\ i = 1
    /\ processedCount = 0
    /\ success = <<>>
    /\ failed = <<>>
    /\ progress = <<>>

execVars == <<bufferPromise, binaryVars, caller, options, cachedBinaryPath, calls, pcB>>

\* the client calls sanitizeArgument(arg)
CallSanitizeArgument ==
    /\ validation.fn = "sanitizeArgument" /\ ~validation.called
    /\ validation' = [validation EXCEPT !.called = TRUE,
                                        !.output = sanitizeArgument(validation.input)]
    /\ UNCHANGED <<execVars, batchVars>>

\* the client calls sanitizeArguments(args)
CallSanitizeArguments ==
    /\ validation.fn = "sanitizeArguments" /\ ~validation.called
    /\ validation' = [validation EXCEPT !.called = TRUE,
                                        !.output = sanitizeArguments(validation.input)]
    /\ UNCHANGED <<execVars, batchVars>>

NextSanitize == CallSanitizeArgument \/ CallSanitizeArguments

SpecSanitize == InitSanitize /\ [][NextSanitize]_vars

\* ------------------------------------------------ path validation
MaxPathLen == 4
MaxDirLen == 2

\* a separator, a dot, a name character and a blank
PathChars == {"/", ".", "s", " "}

\* an argument that was left out
Undefined == <<"<undefined>">>

\* process.cwd()
cwd == <<"/", "s">>

\* str.trim() === ''
IsBlank(str) == \A k \in 1..Len(str) : IsSpace(str[k])

\* str.startsWith(prefix)
startsWith(str, prefix) ==
    /\ Len(prefix) <= Len(str)
    /\ SubSeq(str, 1, Len(prefix)) = prefix

\* str.split(path.sep) from position k on, cur being the part read so far
RECURSIVE Split(_, _, _)
Split(str, k, cur) ==
    IF k > Len(str) THEN <<cur>>
    ELSE IF str[k] = "/" THEN <<cur>> \o Split(str, k + 1, <<>>)
    ELSE Split(str, k + 1, Append(cur, str[k]))

\* path.resolve on POSIX: empty and "." segments are dropped, ".." removes
\* the segment before it and does not go above the root
RECURSIVE Collapse(_, _)
Collapse(segs, stack) ==
    IF segs = <<>> THEN stack
    ELSE LET seg == Head(segs)
         IN IF seg = <<>> \/ seg = <<".">>
            THEN Collapse(Tail(segs), stack)
            ELSE IF seg = <<".", ".">>
            THEN Collapse(Tail(segs),
                          IF stack = <<>> THEN stack ELSE SubSeq(stack, 1, Len(stack) - 1))
            ELSE Collapse(Tail(segs), Append(stack, seg))

RECURSIVE Join(_)
Join(segs) == IF segs = <<>> THEN <<>> ELSE <<"/">> \o Head(segs) \o Join(Tail(segs))

\* path.resolve(p): relative paths are taken from the working directory
resolve(p) ==
    LET abs == IF p # <<>> /\ p[1] = "/" THEN p ELSE cwd \o <<"/">> \o p
        segs == Collapse(Split(abs, 1, <<>>), <<>>)
    IN IF segs = <<>> THEN <<"/">> ELSE Join(segs)

\* "if (allowedDir)": undefined and the empty string are falsy
Truthy(str) == str # Undefined /\ str # <<>>

\* as validateFilePath, comparing the strings as they were passed
validateFilePathRaw(filePath, allowedDir) ==
    IF filePath = NotAString \/ IsBlank(filePath)
    THEN [ok |-> FALSE, value |-> <<>>, error |-> "non-empty string"]
    ELSE IF Truthy(allowedDir) /\ ~startsWith(filePath, allowedDir)
    THEN [ok |-> FALSE, value |-> <<>>, error |-> "Path traversal"]
    ELSE [ok |-> TRUE, value |-> resolve(filePath), error |-> ""]

\* validateFilePath(filePath, allowedDir); the loop over the path parts only
\* logs
validateFilePath(filePath, allowedDir) ==
    IF filePath = NotAString \/ IsBlank(filePath)
    THEN [ok |-> FALSE, value |-> <<>>, error |-> "non-empty string"]
    ELSE IF Truthy(allowedDir) /\ ~startsWith(resolve(filePath), resolve(allowedDir))
    THEN [ok |-> FALSE, value |-> <<>>, error |-> "Path traversal"]
    ELSE [ok |-> TRUE, value |-> resolve(filePath), error |-> ""]

\* as validateDirectoryPath, without the trim
validateDirectoryPathUntrimmed(dirPath) ==
    IF dirPath = NotAString \/ dirPath = <<>>
    THEN [ok |-> FALSE, value |-> <<>>, error |-> "non-empty string"]
    ELSE [ok |-> TRUE, value |-> resolve(dirPath), error |-> ""]

\* validateDirectoryPath(dirPath)
validateDirectoryPath(dirPath) ==
    IF dirPath = NotAString \/ IsBlank(dirPath)
    THEN [ok |-> FALSE, value |-> <<>>, error |-> "non-empty string"]
    ELSE [ok |-> TRUE, value |-> resolve(dirPath), error |-> ""]

Paths(len) == SeqsUpTo(PathChars, len) \cup {NotAString}
AllowedDirs(len) == SeqsUpTo(PathChars, len) \cup {Undefined}

InitPath ==
    /\ InitBinaryVars
    /\ validation \in
          {[fn |-> "validateFilePath", called |-> FALSE, input |-> f, allowedDir |-> d,
            output |-> NoOutput] : f \in Paths(MaxPathLen), d \in AllowedDirs(MaxDirLen)}
          \cup
          {[fn |-> "validateDirectoryPath", called |-> FALSE, input |-> f,
            allowedDir |-> Undefined, output |-> NoOutput] : f \in Paths(MaxPathLen)}
    /\ caller = "validation"
    /\ options = NoBatchOptions([hasTimeout |-> FALSE, timeout |-> 0])
    /\ cachedBinaryPath = ""
    /\ files = <<>>
    /\ calls = [c \in Slots |-> NoCall]
    /\ pcB = "entry"
    /\ i = 1
    /\ processedCount = 0
    /\ success = <<>>
    /\ failed = <<>>
    /\ progress = <<>>

\* the client calls validateFilePath(filePath, allowedDir)
CallValidateFilePath ==
    /\ validation.fn = "validateFilePath" /\ ~validation.called
    /\ validation' =
          [validation EXCEPT !.called = TRUE,
              !.output = validateFilePath(validation.input, validation.allowedDir)]
    /\ UNCHANGED <<execVars, batchVars>>

\* the client calls validateDirectoryPath(dirPath)
CallValidateDirectoryPath ==
    /\ validation.fn = "validateDirectoryPath" /\ ~validation.called
    /\ validation' = [validation EXCEPT !.called = TRUE,
                                        !.output = validateDirectoryPath(validation.input)]
    /\ UNCHANGED <<execVars, batchVars>>

NextPath == CallValidateFilePath \/ CallValidateDirectoryPath

SpecPath == InitPath /\ [][NextPath]_vars

\* ------------------------------------------------ the binary locator
MaxSearchPaths == 2

\* getVendorBinaryPath(): the binary downloaded into the package
VendorBinary == "/pkg/bin/magick"

\* the binary in the one directory of PATH
PathBinary == "/usr/local/bin/magick"

\* COMMON_PATHS[process.platform]
COMMON_PATHS == <<"/usr/bin/magick", "/snap/bin/magick">>

\* the paths a user passes to setBinaryPath and addBinarySearchPath, with
\* what validateFilePath makes of them: an absolute path, a relative path
\* that comes back resolved, and a blank one that is refused
UserPathChoices ==
    { [raw |-> "/opt/im/magick", ok |-> TRUE, resolved |-> "/opt/im/magick"],
      [raw |-> "im/magick", ok |-> TRUE, resolved |-> "/cwd/im/magick"],
      [raw |-> " ", ok |-> FALSE, resolved |-> ""] }

AllBinaries ==
    {VendorBinary, PathBinary, COMMON_PATHS[1], COMMON_PATHS[2],
     "/opt/im/magick", "/cwd/im/magick"}

\* the first path of a list that exists, "" for none
RECURSIVE FirstExisting(_, _)
FirstExisting(paths, fs) ==
    IF paths = <<>> THEN ""
    ELSE IF Head(paths) \in fs THEN Head(paths)
    ELSE FirstExisting(Tail(paths), fs)

\* findInPath()
findInPath(fs) == FirstExisting(<<PathBinary>>, fs)

\* findInCommonPaths(): the platform's paths, then the added ones
findInCommonPaths(additional, fs) == FirstExisting(COMMON_PATHS \o additional, fs)

\* findBinary() in full: the cache, the custom path, the vendor binary,
\* PATH, the common and added paths; cache is the new cachedBinaryPath
findBinaryAt(cached, custom, additional, fs) ==
    IF cached # ""
    THEN [ok |-> TRUE, path |-> cached, cache |-> cached]
    ELSE IF custom # "" /\ custom \in fs
    THEN [ok |-> TRUE, path |-> custom, cache |-> custom]
    ELSE IF VendorBinary \in fs
    THEN [ok |-> TRUE, path |-> VendorBinary, cache |-> VendorBinary]
    ELSE IF findInPath(fs) # ""
    THEN [ok |-> TRUE, path |-> findInPath(fs), cache |-> findInPath(fs)]
    ELSE IF findInCommonPaths(additional, fs) # ""
    THEN [ok |-> TRUE, path |-> findInCommonPaths(additional, fs),
          cache |-> findInCommonPaths(additional, fs)]
    ELSE [ok |-> FALSE, path |-> "", cache |-> cached]

InitBinary ==
    /\ bufferPromise = NoBuffer
    /\ customBinaryPath = ""
    /\ additionalSearchPaths = <<>>
    /\ existing \in SUBSET AllBinaries
    /\ found = NotCalled
    /\ validation = NoValidation
    /\ caller = "binary"
    /\ options = NoBatchOptions([hasTimeout |-> FALSE, timeout |-> 0])
    /\ cachedBinaryPath = ""
    /\ files = <<>>
    /\ calls = [c \in Slots |-> NoCall]
    /\ pcB = "entry"
    /\ i = 1
    /\ processedCount = 0
    /\ success = <<>>
    /\ failed = <<>>
    /\ progress = <<>>

restVars == <<bufferPromise, validation, caller, options, files, calls, pcB, i, processedCount,
              success, failed, progress>>

\* as SetBinaryPath, but the cache is kept
SetBinaryPathKeepsCache(u) ==
    /\ customBinaryPath' = IF u.ok THEN u.resolved ELSE customBinaryPath
    /\ found' = IF u.ok THEN [NotCalled EXCEPT !.dropped = cachedBinaryPath] ELSE found
    /\ UNCHANGED <<cachedBinaryPath, additionalSearchPaths, existing, restVars>>

\* setBinaryPath(binaryPath); a path that validateFilePath refuses makes it
\* throw before anything is set
SetBinaryPath(u) ==
    /\ customBinaryPath' = IF u.ok THEN u.resolved ELSE customBinaryPath
    /\ cachedBinaryPath' = IF u.ok THEN "" ELSE cachedBinaryPath
    /\ found' = IF u.ok THEN [NotCalled EXCEPT !.dropped = cachedBinaryPath] ELSE found
    /\ UNCHANGED <<additionalSearchPaths, existing, restVars>>

\* addBinarySearchPath(searchPath)
AddBinarySearchPath(u) ==
    /\ Len(additionalSearchPaths) < MaxSearchPaths
    /\ u.ok
    /\ additionalSearchPaths' = Append(additionalSearchPaths, u.resolved)
    /\ cachedBinaryPath' = ""
    /\ found' = NotCalled
    /\ UNCHANGED <<customBinaryPath, existing, restVars>>

\* clearAdditionalSearchPaths()
ClearAdditionalSearchPaths ==
    /\ additionalSearchPaths # <<>>
    /\ additionalSearchPaths' = <<>>
    /\ cachedBinaryPath' = ""
    /\ found' = NotCalled
    /\ UNCHANGED <<customBinaryPath, existing, restVars>>

\* clearBinaryCache()
ClearBinaryCache ==
    /\ cachedBinaryPath # ""
    /\ cachedBinaryPath' = ""
    /\ UNCHANGED <<customBinaryPath, additionalSearchPaths, existing, found, restVars>>

\* await findBinary()
FindBinary ==
    LET r == findBinaryAt(cachedBinaryPath, customBinaryPath, additionalSearchPaths,
                          existing)
    IN /\ found' = [found EXCEPT !.called = TRUE, !.ok = r.ok, !.path = r.path]
       /\ found' # found
       /\ cachedBinaryPath' = r.cache
       /\ UNCHANGED <<customBinaryPath, additionalSearchPaths, existing, restVars>>

SetPath == \E u \in UserPathChoices : SetBinaryPath(u)
AddPath == \E u \in UserPathChoices : AddBinarySearchPath(u)

NextBinary ==
    \/ SetPath
    \/ AddPath
    \/ ClearAdditionalSearchPaths
    \/ ClearBinaryCache
    \/ FindBinary

SpecBinary == InitBinary /\ [][NextBinary]_vars

Init == InitExec \/ InitBatch
Next == NextExec \/ NextBatch
Spec == Init /\ [][Next]_vars

\* The steps the event loop of Node takes by itself once they are ready: the
\* continuation of an await whose promise has settled, and the synchronous
\* part of a call between two awaits.
Continue ==
    \/ CallExecute
    \/ ExecuteSettled
    \/ SeqSkip
    \/ SeqDispatch
    \/ SeqSettled
    \/ ChunkDispatch
    \/ ChunkSettled
    \/ BatchReturn

\* An armed timer expires and its callback runs (the signal it sends ends
\* the process in that turn, see OnTimeout); the 'close' event of a process
\* that has ended is emitted.  Nothing makes a process end by itself:
\* ProcExit and ProcSignalled carry no fairness.
Fairness ==
    /\ WF_vars(Continue)
    /\ \A c \in Slots : WF_vars(TimerFire(c)) /\ WF_vars(CloseEvent(c))

SpecFair == Init /\ [][Next]_vars /\ Fairness

\* ================================================================ claims
Positions == 1..Len(files)
Returned == caller = "processBatch" /\ pcB = "returned"
SuccessSet == {success[k] : k \in 1..Len(success)}
FailedSet == {failed[k].file : k \in 1..Len(failed)}
Attempted(pos) == calls[pos].stage # "idle"
Alive == {c \in Slots : calls[c].proc = "running"}

\* C1: a processBatch call with continueOnError true returns success and
\* failed lists whose lengths add up to the number of input files, and no
\* file is in both.
C1_PartitionTotal ==
    (Returned /\ continueOnError) =>
        /\ Len(success) + Len(failed) = Len(files)
        /\ SuccessSet \cap FailedSet = {}

\* C2: during a processBatch call with parallel = k, never more than k
\* processes spawned by the batch are alive at the same time.
C2_ConcurrencyBound ==
    caller = "processBatch" => Cardinality(Alive) <= parallel

\* C2 witness: a chunked batch of three files with parallel = 2 has two
\* processes alive at once
C2_Witness ==
    /\ caller = "processBatch"
    /\ parallel = 2
    /\ Len(files) = 3
    /\ Cardinality(Alive) = 2

\* C3: in the result of any processBatch call a file is in neither list
\* only if it was never attempted; every file that was dispatched is in
\* exactly one of the two lists.
C3_DispatchedRecorded ==
    Returned =>
        \A pos \in Positions :
            Attempted(pos) =>
                /\ pos \in SuccessSet \cup FailedSet
                /\ ~(pos \in SuccessSet /\ pos \in FailedSet)

\* C4: with parallel = 1 and continueOnError false, when the file at
\* position j is the first to fail, processBatch returns with success = the
\* files before j in input order, failed = file j with its error, and no
\* file after j attempted.
C4_FailFastSequential ==
    (Returned /\ parallel = 1 /\ ~continueOnError /\ failed # <<>>) =>
        LET j == failed[1].file
        IN /\ success = [k \in 1..(j - 1) |-> k]
           /\ failed = <<[file |-> j, error |-> calls[j].result]>>
           /\ calls[j].result.kind \notin {"pending", "resolved"}
           /\ \A pos \in Positions : pos > j => ~Attempted(pos)

\* C5: processBatch never rejects because a file failed: for every value of
\* continueOnError and parallel it returns a result that lists every file
\* whose processFile promise rejected in failed, with that error.
C5_FailuresListed ==
    /\ pcB # "rejected"
    /\ Returned =>
          \A pos \in Positions :
              (Attempted(pos) /\ calls[pos].result.kind # "resolved") =>
                  \E k \in 1..Len(failed) :
                      failed[k] = [file |-> pos, error |-> calls[pos].result]

\* C10: a run with parallel = 1 and continueOnError true over N files hands
\* the progress callback the index values 1, 2, ..., N in that order, and
\* the event with index N has percentage 100.
C10_SequentialProgress ==
    (caller = "processBatch" /\ parallel = 1 /\ continueOnError /\ options.onProgress) =>
        /\ \A k \in 1..Len(progress) : progress[k].index = k
        /\ Returned =>
              /\ Len(progress) = Len(files)
              /\ Len(files) > 0 => progress[Len(files)].percentage = 100

AllSanitized(tokens) == \A p \in 1..Len(tokens) : sanitizeArgument(tokens[p]).ok

\* C6: execute and executeStream spawn a process only with an argument
\* vector that is the input unchanged and in which every token passes
\* sanitizeArgument; a call whose input holds a token that fails it is
\* rejected with the sanitizer's error, naming the first such token, and
\* never has a process.
C6_SpawnOnlySanitized ==
    \A c \in Slots :
        LET call == calls[c]
            bad == {p \in 1..Len(call.args) : ~sanitizeArgument(call.args[p]).ok}
        IN /\ call.proc # "none" => (call.argv = call.args /\ AllSanitized(call.argv))
           /\ (call.stage # "idle" /\ bad # {}) =>
                 /\ call.proc = "none"
                 /\ call.result.kind = "SanitizeError"
                 /\ call.result.index + 1 \in bad
                 /\ \A p \in bad : call.result.index + 1 <= p

\* C6 witness: executeStream has a running process with a two-token vector
\* one of whose tokens holds a "$" that the sanitizer only warns about
C6_Witness ==
    /\ caller = "executeStream"
    /\ calls[1].proc = "running"
    /\ calls[1].argv = <<TokWord, TokDollar>>

\* C7: a process that closes without the timeout having fired makes
\* execute resolve with {stdout, stderr, exitCode: 0} exactly when its exit
\* code is 0, and reject with an ExecutionError of that code and the
\* captured output for every other exit code.
C7_ExitCodeMapping ==
    \A c \in Slots :
        LET call == calls[c]
        IN (call.variant = "execute" /\ call.proc = "closed" /\ call.timer # "fired") =>
              /\ (call.result.kind = "resolved") <=> (call.code = 0)
              /\ call.code = 0 => call.result = Resolved(call.stdout, call.stderr, 0)
              /\ call.code \notin {0, NullCode} =>
                    call.result = ExecutionError(call.argv, call.code, call.stderr, call.stdout)

\* C8: when the timeout (> 0) elapses while the process is running, the
\* process is sent SIGKILL and is dead from then on, and the call settles
\* only at the process's close, with a TimeoutError whose timeoutMs is the
\* configured timeout, never with a result.
C8_TimerKills ==
    \A c \in Slots :
        (calls[c].timer = "armed" /\ calls[c].proc = "running" /\ calls'[c].timer = "fired") =>
            /\ OptsTimeout > 0
            /\ calls'[c].killed
            /\ calls'[c].signal = "SIGKILL"
            /\ calls'[c].proc = "exited"
            /\ ~Settled(calls'[c])

C8_KilledRejects ==
    \A c \in Slots :
        (calls[c].variant = "execute" /\ calls[c].signal = "SIGKILL") =>
            /\ calls[c].proc \in {"exited", "closed"}
            /\ Settled(calls[c]) =>
                  /\ calls[c].result = TimeoutError(OptsTimeout)
                  /\ calls[c].proc = "closed"

C8_TimeoutRejects == []C8_KilledRejects /\ [][C8_TimerKills]_vars

\* C8 witness: execute was called with timeout 100, its process was killed
\* by the timer and the call has rejected with TimeoutError(100)
C8_Witness ==
    /\ caller = "execute"
    /\ calls[1].signal = "SIGKILL"
    /\ calls[1].result.kind = "TimeoutError"
    /\ calls[1].result.timeoutMs = 100
    /\ pcB = "returned"

\* C9: a process that exits on its own settles the call with the outcome of
\* its exit code, never with TimeoutError, whenever the timer callback runs.
C9_NaturalExitWins ==
    \A c \in Slots :
        LET call == calls[c]
        IN (call.proc = "closed" /\ call.signal = "") =>
              /\ call.result.kind # "TimeoutError"
              /\ call.result.kind = IF call.code = 0 THEN "resolved" ELSE "ExecutionError"
              /\ call.result.exitCode = call.code

ProgressIndices == {progress[k].index : k \in 1..Len(progress)}

\* C11: in a processBatch run with parallel > 1 and continueOnError true,
\* the index of every progress event is the 1-based position of its current
\* file in the input list, and over the whole run the indices are exactly
\* 1..N, none twice and none missing.
C11_ParallelProgressIndex ==
    (caller = "processBatch" /\ parallel > 1 /\ continueOnError /\ options.onProgress) =>
        /\ \A k \in 1..Len(progress) : progress[k].index = progress[k].current
        /\ Returned =>
              /\ ProgressIndices = 1..Len(files)
              /\ Len(progress) = Len(files)

\* C12: a progress event has complete = TRUE exactly when its index equals
\* its total; a processBatch run with continueOnError true that attempts
\* all of its N >= 1 files emits exactly one event with complete = TRUE, and
\* that event is the last one.
C12_CompleteFlag ==
    /\ \A k \in 1..Len(progress) :
          progress[k].complete <=> (progress[k].index = progress[k].total)
    /\ (Returned /\ continueOnError /\ options.onProgress /\ Len(files) >= 1
           /\ \A pos \in Positions : Attempted(pos)) =>
          /\ Cardinality({k \in 1..Len(progress) : progress[k].complete}) = 1
          /\ progress[Len(progress)].complete

\* the number of the chunk (from 0) that holds the file at position pos
ChunkOf(pos) == (pos - 1) \div parallel

\* C20: in processBatch with parallel > 1, no file of a later chunk has its
\* command built or its process spawned before every file of every earlier
\* chunk has settled.
C20_ChunkBarrier ==
    (caller = "processBatch" /\ parallel > 1) =>
        \A p \in Positions, q \in Positions :
            (ChunkOf(p) < ChunkOf(q) /\ Attempted(q)) => Settled(calls[p])

\* C20 witness: with parallel = 2 the third file, alone in the second
\* chunk, has a running process after both files of the first chunk were
\* dispatched and have settled
C20_Witness ==
    /\ caller = "processBatch"
    /\ parallel = 2
    /\ Len(files) = 3
    /\ calls[3].proc = "running"
    /\ Attempted(1) /\ Attempted(2)
    /\ Settled(calls[1]) /\ Settled(calls[2])

\* ---- the rejection rule of the sanitizer as its documentation words it
HasChar(t, ch) == \E p \in 1..Len(t) : t[p] = ch

\* the first position after p that holds no whitespace, Len(t) + 1 if none
RECURSIVE SkipSpace(_, _)
SkipSpace(t, p) ==
    IF p + 1 > Len(t) THEN Len(t) + 1
    ELSE IF IsSpace(t[p + 1]) THEN SkipSpace(t, p + 1)
    ELSE p + 1

\* a separator followed, after optional whitespace, by a word character
SeparatorThenWord(t) ==
    \E p \in 1..Len(t) :
        /\ t[p] \in {"|", ";", "&"}
        /\ SkipSpace(t, p) <= Len(t)
        /\ IsWord(t[SkipSpace(t, p)])

\* the first position after p that holds ch, Len(t) + 1 if none
RECURSIVE NextChar(_, _, _)
NextChar(t, p, ch) ==
    IF p + 1 > Len(t) THEN Len(t) + 1
    ELSE IF t[p + 1] = ch THEN p + 1
    ELSE NextChar(t, p + 1, ch)

\* "$(" ... ")" with something between
Substitution(t) ==
    \E p \in 1..(Len(t) - 1) :
        /\ t[p] = "$" /\ t[p + 1] = "("
        /\ NextChar(t, p + 1, ")") <= Len(t)
        /\ NextChar(t, p + 1, ")") > p + 2

\* a pair of backticks with something between
BacktickPair(t) ==
    \E p \in 1..Len(t) :
        /\ t[p] = "BACKTICK"
        /\ NextChar(t, p, "BACKTICK") <= Len(t)
        /\ NextChar(t, p, "BACKTICK") > p + 1

MustReject(t) ==
    \/ t = NotAString
    \/ HasChar(t, "NUL")
    \/ SeparatorThenWord(t)
    \/ Substitution(t)
    \/ BacktickPair(t)

\* C13: sanitizeArgument(t) throws exactly when t is not a string, holds a
\* NUL byte or holds an injection pattern; every other token, those with
\* "%", a lone "$" or unmatched parentheses included, is returned unchanged.
C13_SanitizeArgumentExact ==
    (validation.fn = "sanitizeArgument" /\ validation.called) =>
        /\ ~validation.output.ok <=> MustReject(validation.input)
        /\ validation.output.ok => validation.output.value = validation.input

\* C13 witness: a token with a separator followed by whitespace and a word
\* character has been rejected as a dangerous pattern
C13_Witness ==
    /\ validation.fn = "sanitizeArgument" /\ validation.called
    /\ validation.input = <<"a", ";", " ", "a">>
    /\ ~validation.output.ok
    /\ validation.output.error = "dangerous pattern"

\* C14: sanitizeArguments(tokens) returns a list equal to tokens, or throws
\* an error naming the index of the first token sanitizeArgument rejects; it
\* returns nothing partial or reordered.
C14_SanitizeArgumentsAllOrFirst ==
    (validation.fn = "sanitizeArguments" /\ validation.called
        /\ validation.input # NotAnArray) =>
        LET tokens == validation.input
            out == validation.output
            rejected == {p \in 1..Len(tokens) : MustReject(tokens[p])}
        IN IF rejected = {}
           THEN out.ok /\ out.value = tokens
           ELSE /\ ~out.ok
                /\ out.value = <<>>
                /\ out.index + 1 \in rejected
                /\ \A p \in rejected : out.index + 1 <= p

\* C14 witness: of three tokens the second and the third are rejected, and
\* the error names index 1
C14_Witness ==
    /\ validation.fn = "sanitizeArguments" /\ validation.called
    /\ validation.input = <<TokWord, TokInject, TokNul>>
    /\ ~validation.output.ok
    /\ validation.output.index = 1

\* ---- path validation
FilePathCalled == validation.fn = "validateFilePath" /\ validation.called

\* the segments of a path, empty ones left out
Segments(p) == SelectSeq(Split(p, 1, <<>>), LAMBDA seg : seg # <<>>)

\* an absolute path without ".", ".." or empty segments and without a
\* trailing separator
AbsoluteCollapsed(p) ==
    /\ p # <<>> /\ p[1] = "/"
    /\ p = <<"/">> \/
          \A k \in 2..Len(Split(p, 1, <<>>)) :
              Split(p, 1, <<>>)[k] \notin {<<>>, <<".">>, <<".", ".">>}

\* the input that both functions refuse
EmptyOrNoString(p) == p = NotAString \/ \A k \in 1..Len(p) : p[k] \in {" ", "\t"}

\* C15: with an allowedDir, validateFilePath throws a "Path traversal" error
\* whenever the resolved path does not begin with the resolved allowedDir,
\* and otherwise returns the resolved absolute path; the resolved paths are
\* compared, not the strings passed.
C15_TraversalOnResolved ==
    (FilePathCalled /\ Truthy(validation.allowedDir)
        /\ ~EmptyOrNoString(validation.input)) =>
        LET out == validation.output
            path == resolve(validation.input)
            dir == resolve(validation.allowedDir)
        IN /\ AbsoluteCollapsed(path) /\ AbsoluteCollapsed(dir)
           /\ IF startsWith(path, dir)
              THEN out.ok /\ out.value = path
              ELSE ~out.ok /\ out.error = "Path traversal"

\* C15 witness: the path "s/.." begins with the allowedDir "s" as a string,
\* but resolves to the directory above it, and has been rejected
C15_Witness ==
    /\ FilePathCalled
    /\ validation.input = <<"s", "/", ".", ".">>
    /\ validation.allowedDir = <<"s">>
    /\ ~validation.output.ok
    /\ validation.output.error = "Path traversal"

\* C16: every path validateFilePath returns for an allowedDir is within it:
\* its segments start with all the segments of the resolved allowedDir.
C16_WithinAllowedDir ==
    (FilePathCalled /\ Truthy(validation.allowedDir) /\ validation.output.ok) =>
        LET path == Segments(validation.output.value)
            dir == Segments(resolve(validation.allowedDir))
        IN /\ Len(dir) <= Len(path)
           /\ SubSeq(path, 1, Len(dir)) = dir

\* C17: without an allowedDir, validateFilePath throws only for an input
\* that is not a string or is empty or blank, and returns the resolved
\* absolute path for every other, "." and ".." segments included;
\* validateDirectoryPath accepts and refuses the same inputs.
C17_NoAllowedDir ==
    /\ (FilePathCalled /\ ~Truthy(validation.allowedDir)) =>
          /\ ~validation.output.ok <=> EmptyOrNoString(validation.input)
          /\ validation.output.ok =>
                /\ validation.output.value = resolve(validation.input)
                /\ AbsoluteCollapsed(validation.output.value)
          /\ validation.output.ok = validateDirectoryPath(validation.input).ok
    /\ (validation.fn = "validateDirectoryPath" /\ validation.called) =>
          /\ ~validation.output.ok <=> EmptyOrNoString(validation.input)
          /\ validation.output.ok = validateFilePath(validation.input, Undefined).ok

\* C17 witness: without an allowedDir the path "../." was accepted and
\* returned as the root directory, the parent of the working directory
C17_Witness ==
    /\ FilePathCalled
    /\ validation.allowedDir = Undefined
    /\ validation.input = <<".", ".", "/", ".">>
    /\ validation.output.ok
    /\ validation.output.value = <<"/">>

\* ---- the executor's errors
C18_NotFoundState ==
    \A c \in Slots :
        LET call == calls[c]
        IN (call.variant = "execute" /\ call.stage # "idle"
               /\ sanitizeArguments(call.args).ok) =>
              /\ cachedBinaryPath = "" =>
                    /\ call.stage = "done"
                    /\ call.proc = "none"
                    /\ call.result = BinaryNotFoundError
              /\ call.proc = "errored" => call.result = BinaryNotFoundError

C18_NotFoundFinal ==
    \A c \in Slots :
        (calls[c].variant = "execute" /\ calls[c].result = BinaryNotFoundError) =>
            calls'[c] = calls[c]

\* C18: execute rejects with BinaryNotFoundError, without a process, when
\* findBinary resolves no executable (nothing is cached after the call),
\* and rejects with BinaryNotFoundError when the spawn emits 'error'; such a
\* call is not made again and its outcome does not change.
C18_BinaryNotFound == []C18_NotFoundState /\ [][C18_NotFoundFinal]_vars

\* C18 witness: a call of execute with acceptable arguments has returned
\* BinaryNotFoundError to its client without a process, no binary found
C18_Witness ==
    /\ caller = "execute"
    /\ pcB = "returned"
    /\ cachedBinaryPath = ""
    /\ calls[1].argv = <<TokWord, TokDollar>>
    /\ calls[1].proc = "none"
    /\ calls[1].result = BinaryNotFoundError

C22_FailFastChunk ==
    (caller = "processBatch" /\ parallel > 1 /\ ~continueOnError) =>
        /\ \A p \in Positions, q \in Positions :
              (ChunkOf(p) < ChunkOf(q) /\ Attempted(q)) =>
                  calls[p].result.kind = "resolved"
        /\ Returned =>
              \A pos \in Positions :
                  /\ calls[pos].proc # "running"
                  /\ Attempted(pos) => calls[pos].result.kind # "pending"

\* the files whose process has closed and whose call has settled, but whose
\* progress event has not been delivered
AwaitingEvent ==
    {pos \in Positions :
        /\ calls[pos].proc = "closed"
        /\ calls[pos].result.kind # "pending"
        /\ \A k \in 1..Len(progress) : progress[k].current # pos}

\* C23: the progress event of a file is delivered as the file settles: no
\* other file of the batch settles between the settling of a file's process
\* and the delivery of its event, so never two files wait for their events.
C23_ProgressAsSettled ==
    (caller = "processBatch" /\ options.onProgress /\ pcB # "returned") =>
        Cardinality(AwaitingEvent) <= 1

\* C24: with parallel = 1 the process of a file is spawned only after the
\* execution of every file before it has settled, and success and failed
\* each hold their files in input order.
C24_SequentialOrder ==
    (caller = "processBatch" /\ parallel = 1) =>
        /\ \A p \in Positions, q \in Positions :
              (p < q /\ Attempted(p) /\ Attempted(q)) =>
                  /\ calls[p].result.kind # "pending"
                  /\ calls[p].proc # "running"
        /\ \A k \in 1..(Len(success) - 1) : success[k] < success[k + 1]
        /\ \A k \in 1..(Len(failed) - 1) : failed[k].file < failed[k + 1].file

\* C24 witness: of three files run one after the other the first succeeded,
\* the second failed and the third has a running process
C24_Witness ==
    /\ caller = "processBatch" /\ parallel = 1
    /\ Len(files) = 3
    /\ success = <<1>>
    /\ Len(failed) = 1 /\ failed[1].file = 2
    /\ calls[3].proc = "running"

EventsOf(pos) == {k \in 1..Len(progress) : progress[k].current = pos}

\* C26: with onProgress, every file appended to success has exactly one
\* progress event, without an error, every file appended to failed has
\* exactly one, with the error recorded in failed, and the number of events
\* is Len(success) + Len(failed).
C26_OneEventPerRecord ==
    (caller = "processBatch" /\ options.onProgress) =>
        /\ Len(progress) = Len(success) + Len(failed)
        /\ \A k \in 1..Len(success) :
              /\ Cardinality(EventsOf(success[k])) = 1
              /\ \A e \in EventsOf(success[k]) : progress[e].error = NoError
        /\ \A k \in 1..Len(failed) :
              /\ Cardinality(EventsOf(failed[k].file)) = 1
              /\ \A e \in EventsOf(failed[k].file) : progress[e].error = failed[k].error

\* C26 witness: a chunked batch has returned with one file in success, one
\* in failed and two progress events
C26_Witness ==
    /\ Returned /\ options.onProgress /\ parallel = 2
    /\ Len(success) = 1 /\ Len(failed) = 1
    /\ Len(progress) = 2

\* ---- processes of the executor
C25_ProcessState ==
    \A c \in Slots :
        LET call == calls[c]
        IN call.variant = "execute" =>
              /\ call.proc # "none" <=> call.stage = "spawned"
              /\ (call.stage # "idle" /\ sanitizeArguments(call.args).ok
                     /\ cachedBinaryPath # "") => call.stage = "spawned"
              /\ call.result.kind \in {"resolved", "ExecutionError", "TimeoutError"} =>
                    call.proc = "closed"
              /\ call.result.kind # "pending" => call.proc \notin {"running", "exited"}

C25_NoSecondSpawn ==
    \A c \in Slots :
        (calls[c].variant = "execute" /\ calls[c].stage # "idle") =>
            /\ calls'[c].stage = calls[c].stage
            /\ calls'[c].proc = "running" => calls[c].proc = "running"
            /\ calls[c].proc \in {"closed", "errored"} => calls'[c].proc = calls[c].proc

\* C25: a call of execute spawns at most one process, and exactly one once
\* its arguments are accepted and the binary is found; when it settles with
\* a result, an ExecutionError or a TimeoutError its process has ended and
\* closed, and no settled call has a process that still runs.
C25_OneProcessPerCall == []C25_ProcessState /\ [][C25_NoSecondSpawn]_vars

\* C25 witness: execute has resolved, its one process having exited with
\* code 0 and closed
C25_Witness ==
    /\ caller = "execute"
    /\ pcB = "returned"
    /\ calls[1].stage = "spawned"
    /\ calls[1].proc = "closed"
    /\ calls[1].code = 0
    /\ calls[1].result.kind = "resolved"

\* C28: execute resolves with a result only if the process exited by itself
\* with code 0; a process ended by a signal that was not the timeout's kill
\* (a close with a null code, killed being false) is not reported as a
\* successful result.
C28_SignalDeathNotSuccess ==
    \A c \in Slots :
        (calls[c].variant = "execute" /\ calls[c].result.kind = "resolved"
            /\ caller = "execute") =>
            /\ calls[c].signal = ""
            /\ calls[c].code = 0

\* ---- the binary locator
\* the documented search order
SearchOrder ==
    (IF customBinaryPath = "" THEN <<>> ELSE <<customBinaryPath>>)
        \o <<VendorBinary, PathBinary>> \o COMMON_PATHS \o additionalSearchPaths

FirstInOrder == {k \in 1..Len(SearchOrder) :
                    /\ SearchOrder[k] \in existing
                    /\ \A j \in 1..(k - 1) : SearchOrder[j] \notin existing}

\* C21: findBinary returns the first path that exists in the order custom
\* path, bundled binary, PATH, common and added paths, and throws when
\* there is none; after any calls of findBinary, setBinaryPath,
\* addBinarySearchPath and clearBinaryCache, the findBinary that follows a
\* setBinaryPath(p) with p existing returns (the resolved) p, whatever was
\* cached before.
C21_SearchOrder ==
    (caller = "binary" /\ found.called) =>
        /\ found.ok <=> FirstInOrder # {}
        /\ \A k \in FirstInOrder : found.path = SearchOrder[k]
        /\ customBinaryPath \in existing => found.path = customBinaryPath
        /\ cachedBinaryPath \in {"", found.path}

\* C21 witness: findBinary had found and cached the bundled binary; then
\* setBinaryPath was called with a relative path that exists, and the next
\* findBinary returned that path, resolved
C21_Witness ==
    /\ caller = "binary"
    /\ found.called
    /\ found.dropped = VendorBinary
    /\ found.path = "/cwd/im/magick"
    /\ customBinaryPath = "/cwd/im/magick"
    /\ additionalSearchPaths # <<>>

\* C29: when the promise of executeBatch settles, resolved with the results
\* in the order of the commands or rejected with the first failure, no
\* process spawned for the batch is still running.
C29_NoProcessLeftRunning ==
    (caller = "executeBatch" /\ pcB \in {"returned", "rejected"}) =>
        \A c \in Slots : calls[c].proc # "running"

\* C27: toBuffer rejects whenever the process exits with a non-zero code or
\* is killed by the timeout; it never resolves with a buffer for a command
\* that failed, in whichever order the 'end' of stdout and the settling of
\* done come.
C27_ToBufferRejectsFailure ==
    (caller = "toBuffer" /\ bufferPromise.kind = "resolved") =>
        /\ calls[1].code \in {0, NullCode}
        /\ ~calls[1].killed

\* C30: with a timeout > 0, every call of execute that has been made
\* eventually settles, and the client's call (execute, or processBatch over
\* its finite list) eventually returns, even if no process ever ends by
\* itself, provided timers expire and 'close' events are delivered.
C30_Termination ==
    /\ \A c \in Slots :
          (OptsTimeout > 0 /\ calls[c].stage # "idle") ~> Settled(calls[c])
    /\ (OptsTimeout > 0) ~> (pcB = "returned")

\* a batch has returned after one of its processes, which did not end by
\* itself, was killed by the timer and reported as a TimeoutError
C30_Witness ==
    /\ caller = "processBatch"
    /\ OptsTimeout > 0
    /\ pcB = "returned"
    /\ \E k \in 1..Len(failed) : failed[k].error.kind = "TimeoutError"

====
